---- MODULE Spec2Model ----
(***************************************************************************)
(* A model of the command-safety gate and the bounded execution pipeline   *)
(* of the networking-tool copilot: CommandValidator (command_validator.py),*)
(* CommandExecutor (command_executor.py) and CommandProcessor              *)
(* (command_processor.py), with the LLMClient (llm_client.py) and the      *)
(* WebServer (web/server.py) that use them.                                *)
(*                                                                         *)
(* A Python str is a sequence of one-character strings.  A value that is   *)
(* passed where a str is expected is a record [kind, text]: kind "str"     *)
(* with its characters, or a non-string value ("none" for None, "int" for  *)
(* a non-zero number) as a JSON client of the web server can send.         *)
(***************************************************************************)
EXTENDS Integers, Sequences, FiniteSets, TLC

VARIABLES
    command,            \* the argument of the call under way
    entry,              \* the method the caller called: "process_command" or "execute"
    pc,                 \* position of the call
    validation_result,  \* what validate_command returned (or raised)
    system,             \* platform.system().lower()
    clock,              \* the event loop's time
    proc_start,         \* start_time of process_command
    start_time,         \* start_time of execute
    request,            \* the spawn request execute built from cmd_parts
    child,              \* the child process of execute
    os_spawns,          \* the spawn requests the operating system received
    os_programs,        \* the programs the operating system started
    exec_calls,         \* the number of calls of execute
    execution_result,   \* what execute returned
    llm_calls,          \* the prompts the explanation collaborator received
    results,            \* the ProcessedCommands returned to the caller
    propagated,         \* the exception that reached the caller, or "none"
    returned,           \* what a call of a helper method returned
    llm_client,         \* the LLMClient: its provider and its session ("none", "open", "closed")
    tasks,              \* the calls of LLMClient.get_explanation under way
    active_connections, \* WebServer.active_connections
    handlers            \* the websocket_endpoint coroutines, one for each websocket

vars == <<command, entry, pc, validation_result, system, clock, proc_start, start_time,
          request, child, os_spawns, os_programs, exec_calls, execution_result,
          llm_calls, results, propagated,
          returned, llm_client, tasks, active_connections, handlers>>

\* the state of the LLMClient and of the WebServer, which the methods of the
\* validator, the executor and the processor modelled below do not write
others == <<returned, llm_client, tasks, active_connections, handlers>>

(***************************************************************************)
(* Bounds of the model.                                                    *)
(***************************************************************************)
\* the number of atoms of a string given to the validator alone
MaxAtoms == 3

\* the number of atoms of a command given to process_command or to execute
MaxCmdAtoms == 2

\* the last instant of the clock
MaxClock == 2

\* CommandExecutor.timeout, in clock units
timeout == 1

(***************************************************************************)
(* Characters and the str methods the code uses.                           *)
(***************************************************************************)
UpperChars == <<"A","B","C","D","E","F","G","H","I","J","K","L","M","N","O","P","Q","R","S","T","U","V","W","X","Y","Z">>

LowerChars == <<"a","b","c","d","e","f","g","h","i","j","k","l","m","n","o","p","q","r","s","t","u","v","w","x","y","z">>

Digits == {"0","1","2","3","4","5","6","7","8","9"}

Range(f) == { f[i] : i \in DOMAIN f }

\* str.isspace() / the default separator of str.split() and str.strip() / regex \s
PyWhitespace == {" ", "\t", "\n", "\r", "\f"}

\* shlex.whitespace
ShlexWhitespace == {" ", "\t", "\r", "\n"}

\* regex \w
WordChar(c) == c \in Range(UpperChars) \/ c \in Range(LowerChars) \/ c \in Digits \/ c = "_"

\* str.lower() on one character
LowerChar(c) ==
    IF c \in Range(UpperChars)
    THEN LowerChars[CHOOSE i \in DOMAIN UpperChars : UpperChars[i] = c]
    ELSE c

\* str.lower()
Lower(s) == [i \in DOMAIN s |-> LowerChar(s[i])]

Blank(s) == \A i \in DOMAIN s : s[i] \in PyWhitespace

\* str.strip()
Strip(s) ==
    IF Blank(s) THEN <<>>
    ELSE LET a == CHOOSE i \in DOMAIN s :
                      s[i] \notin PyWhitespace /\ \A j \in 1..(i-1) : s[j] \in PyWhitespace
             b == CHOOSE i \in DOMAIN s :
                      s[i] \notin PyWhitespace /\ \A j \in (i+1)..Len(s) : s[j] \in PyWhitespace
         IN  SubSeq(s, a, b)

\* str.split()[0] of a string that is not blank
FirstToken(s) ==
    LET a == CHOOSE i \in DOMAIN s :
                 s[i] \notin PyWhitespace /\ \A j \in 1..(i-1) : s[j] \in PyWhitespace
        b == CHOOSE i \in a..Len(s) :
                 /\ (i = Len(s) \/ s[i+1] \in PyWhitespace)
                 /\ \A j \in a..i : s[j] \notin PyWhitespace
    IN  SubSeq(s, a, b)

\* str.split(): one character more, and the end of the string
SplitStep(st, c) ==
    IF c \in PyWhitespace
    THEN [tok |-> <<>>, acc |-> IF st.tok = <<>> THEN st.acc ELSE Append(st.acc, st.tok)]
    ELSE [tok |-> Append(st.tok, c), acc |-> st.acc]

\* the characters lo..hi of s, one after the other, from state st (by halves, so
\* that a long string nests no deeper than the logarithm of its length)
RECURSIVE SplitFold(_, _, _, _)
SplitFold(s, lo, hi, st) ==
    IF lo > hi THEN st
    ELSE IF lo = hi THEN SplitStep(st, s[lo])
    ELSE LET mid == (lo + hi) \div 2
             left == SplitFold(s, lo, mid, st)
         IN  \* the test makes the left half be computed before the right one starts
             IF Len(left.acc) >= 0 THEN SplitFold(s, mid + 1, hi, left) ELSE st

\* str.split()
Split(s) ==
    LET st == SplitFold(s, 1, Len(s), [tok |-> <<>>, acc |-> <<>>])
    IN  IF st.tok = <<>> THEN st.acc ELSE Append(st.acc, st.tok)

RECURSIVE Flatten(_)
Flatten(ss) == IF ss = <<>> THEN <<>> ELSE Head(ss) \o Flatten(Tail(ss))

\* the number of occurrences of the characters of set cs in s
Count(s, cs) == Cardinality({ i \in DOMAIN s : s[i] \in cs })

(***************************************************************************)
(* shlex.split(command): POSIX mode, whitespace_split, no comments.  The   *)
(* state is shlex's: " " between tokens, "a" inside a word, a quote        *)
(* character inside quotes, the escape character after a backslash.        *)
(* The result is [ok, tokens, err]; ok = FALSE stands for ValueError(err). *)
(***************************************************************************)
ShlexQuotes == {"'", "\""}

ShlexEscape == "\\"

ShlexEscapedQuotes == {"\""}

\* what read_token has when it emits: the token, unless it is empty and unquoted
ShlexEmit(st) ==
    IF st.token # <<>> \/ st.quoted THEN Append(st.acc, st.token) ELSE st.acc

\* one character more
ShlexStep(st, c) ==
    IF st.state = " "
    THEN IF c \in ShlexWhitespace
         THEN [st EXCEPT !.acc = ShlexEmit(st), !.token = <<>>, !.quoted = FALSE]
         ELSE IF c = ShlexEscape
         THEN [st EXCEPT !.state = ShlexEscape, !.escapedstate = "a"]
         ELSE IF c \in ShlexQuotes
         THEN [st EXCEPT !.state = c]
         ELSE [st EXCEPT !.state = "a", !.token = <<c>>]
    ELSE IF st.state \in ShlexQuotes
    THEN IF c = st.state
         THEN [st EXCEPT !.state = "a", !.quoted = TRUE]
         ELSE IF c = ShlexEscape /\ st.state \in ShlexEscapedQuotes
         THEN [st EXCEPT !.state = ShlexEscape, !.escapedstate = st.state, !.quoted = TRUE]
         ELSE [st EXCEPT !.token = Append(st.token, c), !.quoted = TRUE]
    ELSE IF st.state = ShlexEscape
    THEN LET keep == /\ st.escapedstate \in ShlexQuotes
                     /\ c # ShlexEscape
                     /\ c # st.escapedstate
         IN  [st EXCEPT !.state = st.escapedstate,
                        !.token = IF keep THEN Append(Append(st.token, ShlexEscape), c)
                                          ELSE Append(st.token, c)]
    ELSE \* st.state = "a"
         IF c \in ShlexWhitespace
         THEN [st EXCEPT !.state = " ", !.acc = ShlexEmit(st), !.token = <<>>, !.quoted = FALSE]
         ELSE IF c \in ShlexQuotes
         THEN [st EXCEPT !.state = c]
         ELSE IF c = ShlexEscape
         THEN [st EXCEPT !.state = ShlexEscape, !.escapedstate = "a"]
         ELSE [st EXCEPT !.token = Append(st.token, c)]

RECURSIVE ShlexFold(_, _, _, _)
ShlexFold(s, lo, hi, st) ==
    IF lo > hi THEN st
    ELSE IF lo = hi THEN ShlexStep(st, s[lo])
    ELSE LET mid == (lo + hi) \div 2
             left == ShlexFold(s, lo, mid, st)
         IN  \* the test makes the left half be computed before the right one starts
             IF Len(left.acc) >= 0 THEN ShlexFold(s, mid + 1, hi, left) ELSE st

ShlexSplit(s) ==
    LET st == ShlexFold(s, 1, Len(s),
                        [state |-> " ", escapedstate |-> " ", token |-> <<>>,
                         quoted |-> FALSE, acc |-> <<>>])
    IN  IF st.state \in ShlexQuotes
        THEN [ok |-> FALSE, tokens |-> <<>>, err |-> "No closing quotation"]
        ELSE IF st.state = ShlexEscape
        THEN [ok |-> FALSE, tokens |-> <<>>, err |-> "No escaped character"]
        ELSE [ok |-> TRUE, tokens |-> ShlexEmit(st), err |-> ""]

(***************************************************************************)
(* CommandValidator.__init__: the tables of the validator.                 *)
(***************************************************************************)
dangerous_commands ==
    { <<"r","m">>, <<"d","e","l">>, <<"f","o","r","m","a","t">>,
      <<"d","d">>, <<"m","k","f","s">>, <<"f","d","i","s","k">>,
      <<"s","h","u","t","d","o","w","n">>, <<"r","e","b","o","o","t">>, <<"h","a","l","t">>,
      <<"p","o","w","e","r","o","f","f">>, <<"s","u","d","o">>, <<"s","u">>,
      <<"c","h","m","o","d">>, <<"c","h","o","w","n">> }

special_commands ==
    { <<"s","u","d","o">>, <<"s","u">>, <<"s","s","h">>,
      <<"t","e","l","n","e","t">>, <<"f","t","p">> }

max_command_length == 1000

\* the grave accent U+0060, which cannot be written in a string of this language
Backtick == "GRAVE"

\* the punctuation of the character class of allowed_chars
AllowedPunct ==
    { "-", "_", ".", "/", "\\", ":", ";", "=", "@", "#", "$", "%", "^", "&", "*",
      "(", ")", "[", "]", "{", "}", "|", "<", ">", "\"", "'", Backtick, "~" }

AllowedChar(c) ==
    \/ c \in Range(UpperChars) \/ c \in Range(LowerChars) \/ c \in Digits
    \/ c \in PyWhitespace
    \/ c \in AllowedPunct

\* self.allowed_chars.match(command): ^[...]+$
allowed_chars_match(s) == s # <<>> /\ \A i \in DOMAIN s : AllowedChar(s[i])

(***************************************************************************)
(* _is_networking_command: a regex search on command.lower() for one of    *)
(* the words of a pattern between two word boundaries, for each of the     *)
(* four patterns.                                                          *)
(***************************************************************************)
networking_pattern_1 ==
    { <<"i","p","c","o","n","f","i","g">>, <<"i","f","c","o","n","f","i","g">>, <<"i","p">>,
      <<"t","r","a","c","e","r","o","u","t","e">>, <<"t","r","a","c","e","r","t">>, <<"p","i","n","g">>,
      <<"n","e","t","s","t","a","t">>, <<"n","m","a","p">>, <<"d","i","g">>,
      <<"n","s","l","o","o","k","u","p">>, <<"r","o","u","t","e">>, <<"s","s">> }

networking_pattern_2 ==
    { <<"h","o","s","t">>, <<"w","h","o","i","s">>, <<"t","e","l","n","e","t">>,
      <<"s","s","h">>, <<"f","t","p">>, <<"s","c","p">>,
      <<"r","s","y","n","c">> }

networking_pattern_3 ==
    { <<"a","r","p">>, <<"a","r","p","i","n","g">>, <<"i","w","c","o","n","f","i","g">>,
      <<"i","w","l","i","s","t">>, <<"w","p","a","_","s","u","p","p","l","i","c","a","n","t">> }

networking_pattern_4 ==
    { <<"e","t","h","t","o","o","l">>, <<"m","i","i","-","t","o","o","l">>, <<"i","f","u","p">>,
      <<"i","f","d","o","w","n">> }

networking_patterns ==
    <<networking_pattern_1, networking_pattern_2, networking_pattern_3, networking_pattern_4>>

\* a regex word boundary between positions k and k+1 of s (k = 0 .. Len(s))
WordBoundary(s, k) ==
    LET before == k >= 1 /\ WordChar(s[k])
        after  == k < Len(s) /\ WordChar(s[k + 1])
    IN  before # after

\* re.search for one of the words between word boundaries
SearchWords(words, s) ==
    \E w \in words : \E i \in 1..(Len(s) - Len(w) + 1) :
        /\ SubSeq(s, i, i + Len(w) - 1) = w
        /\ WordBoundary(s, i - 1)
        /\ WordBoundary(s, i + Len(w) - 1)

is_networking_command(s) ==
    \E p \in DOMAIN networking_patterns : SearchWords(networking_patterns[p], Lower(s))

(***************************************************************************)
(* _get_warnings and sanitize_command.                                     *)
(***************************************************************************)
Contains(s, c) == \E i \in DOMAIN s : s[i] = c

ContainsSeq(s, w) == \E i \in 1..(Len(s) - Len(w) + 1) : SubSeq(s, i, i + Len(w) - 1) = w

get_warnings(s) ==
    (IF Contains(s, ">") \/ ContainsSeq(s, <<">", ">">>)
        THEN <<"Command contains output redirection">> ELSE <<>>)
    \o (IF Contains(s, "|") THEN <<"Command contains pipe operator">> ELSE <<>>)
    \o (IF Contains(s, "&") THEN <<"Command contains background execution">> ELSE <<>>)
    \o (IF Contains(s, ";") THEN <<"Command contains command separator">> ELSE <<>>)

\* the characters sanitize_command removes
ShellMeta == { ";", "&", "|", Backtick, "$", "(", ")" }

\* a variant of sanitize_command that strips before it removes and collapses
sanitize_command_strip_first(s) ==
    LET removed == SelectSeq(Strip(s), LAMBDA c : c \notin ShellMeta)
        starts(i) == removed[i] \notin PyWhitespace \/ i = 1 \/ removed[i - 1] \notin PyWhitespace
        kept == SelectSeq([i \in 1..Len(removed) |-> i], starts)
    IN  [k \in 1..Len(kept) |->
            IF removed[kept[k]] \in PyWhitespace THEN " " ELSE removed[kept[k]]]

sanitize_command(s) ==
    LET removed == SelectSeq(s, LAMBDA c : c \notin ShellMeta)
        starts(i) == removed[i] \notin PyWhitespace \/ i = 1 \/ removed[i - 1] \notin PyWhitespace
        kept == SelectSeq([i \in 1..Len(removed) |-> i], starts)
        collapsed == [k \in 1..Len(kept) |->
                         IF removed[kept[k]] \in PyWhitespace THEN " " ELSE removed[kept[k]]]
    IN  Strip(collapsed)

(***************************************************************************)
(* Formatted text.  A str built by the code (an f-string, a decoded        *)
(* stream) is a sequence of parts [msg, arg, num]: a fixed text, the       *)
(* characters and the number put into it.  The empty str is the empty      *)
(* sequence and + is concatenation.                                        *)
(***************************************************************************)
Part(m, a, n) == [msg |-> m, arg |-> a, num |-> n]

Fixed(m) == <<Part(m, <<>>, 0)>>

\* a str given by its characters
Text(chars) == IF chars = <<>> THEN <<>> ELSE <<Part("", chars, 0)>>

\* m in text
Mentions(text, m) == \E i \in DOMAIN text : text[i].msg = m

(***************************************************************************)
(* ValidationResult and validate_command.                                  *)
(***************************************************************************)
None == <<"None">>

NoError == <<>>

ValidationResult(valid, error, warnings, sanitized) ==
    [valid |-> valid, error |-> error, warnings |-> warnings, sanitized_command |-> sanitized]

\* ValidationResult(valid=False, error=...): the other fields keep their defaults
Invalid(error) == ValidationResult(FALSE, error, None, <<>>)

\* a call returns a value or raises an exception
Return(v) == [raised |-> FALSE, value |-> v]

Raise(e) == [raised |-> TRUE, exc |-> e]

\* Python truthiness of the argument: None and "" are falsy
Falsy(cmd) == cmd.kind = "none" \/ (cmd.kind = "str" /\ cmd.text = <<>>)

\* a variant of base_command that forgets .lower()
base_command_case_sensitive(s) == FirstToken(s)

\* a variant of validate_command that looks at the denylists before the length
validate_command_denylist_first(cmd) ==
    LET s == cmd.text
        base_cmd == Lower(FirstToken(s))
        parsed == ShlexSplit(s)
    IN
    IF Falsy(cmd) THEN Return(Invalid(Fixed("Empty command")))
    ELSE IF cmd.kind # "str" THEN Raise("AttributeError")
    ELSE IF Blank(s) THEN Return(Invalid(Fixed("Empty command")))
    ELSE IF base_cmd \in dangerous_commands
        THEN Return(Invalid(<<Part("Dangerous command", base_cmd, 0)>>))
    ELSE IF base_cmd \in special_commands
        THEN Return(Invalid(<<Part("Special command", base_cmd, 0)>>))
    ELSE IF Len(s) > max_command_length
        THEN Return(Invalid(<<Part("Command too long", <<>>, max_command_length)>>))
    ELSE IF ~allowed_chars_match(s)
        THEN Return(Invalid(Fixed("Command contains invalid characters")))
    ELSE IF ~parsed.ok
        THEN Return(Invalid(Fixed("Invalid command syntax") \o Fixed(parsed.err)))
    ELSE IF parsed.tokens = <<>>
        THEN Return(Invalid(Fixed("Invalid command syntax")))
    ELSE IF ~is_networking_command(s)
        THEN Return(Invalid(Fixed("Command does not appear to be a networking command")))
    ELSE Return(ValidationResult(TRUE, NoError, get_warnings(s), Strip(s)))

\* base_cmd = command.split()[0].lower()
base_command(s) == Lower(FirstToken(s))

validate_command(cmd) ==
    LET s == cmd.text
        base_cmd == base_command(s)
        parsed == ShlexSplit(s)
    IN
    IF Falsy(cmd) THEN Return(Invalid(Fixed("Empty command")))
    ELSE IF cmd.kind # "str" THEN Raise("AttributeError")
    ELSE IF Blank(s) THEN Return(Invalid(Fixed("Empty command")))
    ELSE IF Len(s) > max_command_length
        THEN Return(Invalid(<<Part("Command too long", <<>>, max_command_length)>>))
    ELSE IF base_cmd \in dangerous_commands
        THEN Return(Invalid(<<Part("Dangerous command", base_cmd, 0)>>))
    ELSE IF base_cmd \in special_commands
        THEN Return(Invalid(<<Part("Special command", base_cmd, 0)>>))
    ELSE IF ~allowed_chars_match(s)
        THEN Return(Invalid(Fixed("Command contains invalid characters")))
    ELSE IF ~parsed.ok
        THEN Return(Invalid(Fixed("Invalid command syntax") \o Fixed(parsed.err)))
    ELSE IF parsed.tokens = <<>>
        THEN Return(Invalid(Fixed("Invalid command syntax")))
    ELSE IF ~is_networking_command(s)
        THEN Return(Invalid(Fixed("Command does not appear to be a networking command")))
    ELSE Return(ValidationResult(TRUE, NoError, get_warnings(s), Strip(s)))

(***************************************************************************)
(* CommandExecutor: the status taxonomy, CommandResult and the pure        *)
(* helpers of execute.                                                     *)
(***************************************************************************)
SUCCESS == "success"

ERROR == "error"

NOT_FOUND == "not_found"

TIMEOUT == "timeout"

PERMISSION_DENIED == "permission_denied"

CommandResult(cmd, output, error, status, return_code, execution_time) ==
    [command |-> cmd, output |-> output, error |-> error, status |-> status,
     return_code |-> return_code, execution_time |-> execution_time]

\* _parse_command: shlex.split, and str.split when shlex raises ValueError
parse_command(s) ==
    LET r == ShlexSplit(s) IN IF r.ok THEN r.tokens ELSE Split(s)

\* a variant of _create_subprocess that hands the joined line to a shell
create_subprocess_shell(cmd_parts) ==
    [api |-> "shell", argv |-> cmd_parts, stdin |-> "DEVNULL",
     stdout |-> "PIPE", stderr |-> "PIPE"]

\* _create_subprocess: what the executor asks of the operating system
create_subprocess(cmd_parts) ==
    [api |-> "exec", argv |-> cmd_parts, stdin |-> "DEVNULL",
     stdout |-> "PIPE", stderr |-> "PIPE"]

\* a variant of _determine_status that trusts the stderr text over the exit code
determine_status_from_stderr(return_code, stderr) ==
    IF return_code = 0 THEN SUCCESS
    ELSE IF return_code = 127 \/ ContainsSeq(stderr, <<"n","o","t"," ","f","o","u","n","d">>)
        THEN NOT_FOUND
    ELSE IF return_code = 126 THEN PERMISSION_DENIED
    ELSE ERROR

determine_status(return_code, stderr) ==
    IF return_code = 0 THEN SUCCESS
    ELSE IF return_code = 127 THEN NOT_FOUND
    ELSE IF return_code = 126 THEN PERMISSION_DENIED
    ELSE ERROR

\* bytes.decode('utf-8', errors='replace'): a byte that is no UTF-8 becomes U+FFFD
BadByte == "0xFF"

Replacement == "U+FFFD"

Decode(bytes) == Text([i \in DOMAIN bytes |-> IF bytes[i] = BadByte THEN Replacement ELSE bytes[i]])

(***************************************************************************)
(* The operating system's side of a spawn request: the programs it starts. *)
(* An exec request starts the program argv[0] with the other elements as   *)
(* its arguments; a shell request would hand the joined line to a shell,   *)
(* which starts one program for each part between ; | and &.               *)
(***************************************************************************)
ShellSeparators == { ";", "|", "&" }

RECURSIVE JoinArgs(_)
JoinArgs(argv) ==
    IF argv = <<>> THEN <<>>
    ELSE IF Len(argv) = 1 THEN argv[1]
    ELSE argv[1] \o <<" ">> \o JoinArgs(Tail(argv))

ShellStep(st, c) ==
    IF c \in ShellSeparators
    THEN [seg |-> <<>>,
          progs |-> IF Blank(st.seg) THEN st.progs ELSE Append(st.progs, FirstToken(st.seg))]
    ELSE [seg |-> Append(st.seg, c), progs |-> st.progs]

RECURSIVE ShellFold(_, _, _, _)
ShellFold(s, lo, hi, st) ==
    IF lo > hi THEN st
    ELSE IF lo = hi THEN ShellStep(st, s[lo])
    ELSE LET mid == (lo + hi) \div 2
             left == ShellFold(s, lo, mid, st)
         IN  \* the test makes the left half be computed before the right one starts
             IF Len(left.progs) >= 0 THEN ShellFold(s, mid + 1, hi, left) ELSE st

ShellPrograms(line) ==
    LET st == ShellFold(line, 1, Len(line), [seg |-> <<>>, progs |-> <<>>])
    IN  IF Blank(st.seg) THEN st.progs ELSE Append(st.progs, FirstToken(st.seg))

OsLaunch(req) ==
    IF req.api = "exec" THEN <<req.argv[1]>>
    ELSE ShellPrograms(JoinArgs(req.argv))

(***************************************************************************)
(* CommandHelper: the substitution table of each platform and the help     *)
(* texts.  A table is a set of <<key, value>> pairs; Lookup is dict.get.   *)
(***************************************************************************)
HasKey(table, k) == \E e \in table : e[1] = k

Lookup(table, k) == (CHOOSE e \in table : e[1] = k)[2]

alternatives_darwin ==
    { <<<<"i","p","c","o","n","f","i","g">>, <<"i","f","c","o","n","f","i","g">>>>,
      <<<<"t","r","a","c","e","r","t">>, <<"t","r","a","c","e","r","o","u","t","e">>>>,
      <<<<"n","e","t","s","t","a","t">>, <<"n","e","t","s","t","a","t"," ","-","a","n">>>> }

alternatives_linux ==
    { <<<<"i","p","c","o","n","f","i","g">>, <<"i","p"," ","a","d","d","r">>>>,
      <<<<"t","r","a","c","e","r","t">>, <<"t","r","a","c","e","r","o","u","t","e">>>>,
      <<<<"n","e","t","s","t","a","t">>, <<"n","e","t","s","t","a","t"," ","-","t","u","l","n">>>> }

alternatives_windows ==
    { <<<<"i","f","c","o","n","f","i","g">>, <<"i","p","c","o","n","f","i","g"," ","/","a","l","l">>>>,
      <<<<"t","r","a","c","e","r","o","u","t","e">>, <<"t","r","a","c","e","r","t">>>>,
      <<<<"i","p">>, <<"i","p","c","o","n","f","i","g">>>> }

\* alternatives.get(self.system, {})
os_alternatives(sys) ==
    IF sys = "darwin" THEN alternatives_darwin
    ELSE IF sys = "linux" THEN alternatives_linux
    ELSE IF sys = "windows" THEN alternatives_windows
    ELSE {}

\* a variant of suggest_alternative that looks the base command up as it was typed
suggest_alternative_case_sensitive(s, sys) ==
    LET base_cmd == FirstToken(s)
    IN  IF HasKey(os_alternatives(sys), base_cmd)
        THEN Lookup(os_alternatives(sys), base_cmd)
        ELSE None

\* suggest_alternative: the entry of the lowercased base command, or None
suggest_alternative(s, sys) ==
    LET base_cmd == Lower(FirstToken(s))
    IN  IF HasKey(os_alternatives(sys), base_cmd)
        THEN Lookup(os_alternatives(sys), base_cmd)
        ELSE None

help_texts ==
    { <<<<"i","f","c","o","n","f","i","g">>, "Shows network interface configuration (macOS/Linux)">>,
      <<<<"i","p","c","o","n","f","i","g">>, "Shows network interface configuration (Windows)">>,
      <<<<"p","i","n","g">>, "Tests network connectivity to a host">>,
      <<<<"t","r","a","c","e","r","o","u","t","e">>, "Shows the network path to a destination">>,
      <<<<"t","r","a","c","e","r","t">>, "Shows the network path to a destination (Windows)">>,
      <<<<"n","e","t","s","t","a","t">>, "Shows network connections and routing table">>,
      <<<<"d","i","g">>, "DNS lookup tool (macOS/Linux)">>,
      <<<<"n","s","l","o","o","k","u","p">>, "DNS lookup tool">>,
      <<<<"r","o","u","t","e">>, "Shows routing table">>,
      <<<<"a","r","p">>, "Shows ARP cache">> }

format_command_help(s) ==
    LET base_cmd == Lower(FirstToken(s))
    IN  IF HasKey(help_texts, base_cmd)
        THEN Fixed(Lookup(help_texts, base_cmd))
        ELSE <<Part("Network command: ", base_cmd, 0)>>

(***************************************************************************)
(* command_templates.get_command_template.                                 *)
(***************************************************************************)
templates ==
    { <<<<"i","p","c","o","n","f","i","g">>, "IPCONFIG_TEMPLATE">>,
      <<<<"i","f","c","o","n","f","i","g">>, "IFCONFIG_TEMPLATE">>,
      <<<<"i","p">>, "IP_TEMPLATE">>,
      <<<<"t","r","a","c","e","r","o","u","t","e">>, "TRACEROUTE_TEMPLATE">>,
      <<<<"t","r","a","c","e","r","t">>, "TRACEROUTE_TEMPLATE">>,
      <<<<"p","i","n","g">>, "PING_TEMPLATE">>,
      <<<<"n","e","t","s","t","a","t">>, "NETSTAT_TEMPLATE">>,
      <<<<"n","m","a","p">>, "NMAP_TEMPLATE">>,
      <<<<"d","i","g">>, "DIG_TEMPLATE">>,
      <<<<"n","s","l","o","o","k","u","p">>, "NSLOOKUP_TEMPLATE">>,
      <<<<"r","o","u","t","e">>, "ROUTE_TEMPLATE">> }

get_command_template(s) ==
    LET base_cmd == Lower(FirstToken(s))
    IN  IF HasKey(templates, base_cmd) THEN Lookup(templates, base_cmd) ELSE "DEFAULT_TEMPLATE"

(***************************************************************************)
(* The explanation collaborator (LLMClient.get_explanation) returns a text *)
(* or raises.  The texts: two of the mock responses, the fallback          *)
(* response, a JSON value that is no object, and prose that is no JSON.    *)
(***************************************************************************)
LlmTexts == { "ping_mock", "traceroute_mock", "fallback", "json_array", "prose" }

LlmOutcomes ==
    { [kind |-> "returns", text |-> t] : t \in LlmTexts }
    \cup { [kind |-> "raises", text |-> "Exception"] }

\* what json.loads makes of a text: "object", "other" (a value that is no dict),
\* or "invalid" (JSONDecodeError)
JsonKind(t) ==
    IF t \in {"ping_mock", "traceroute_mock", "fallback"} THEN "object"
    ELSE IF t = "json_array" THEN "other"
    ELSE "invalid"

JsonObject(t) ==
    IF t = "ping_mock"
    THEN [summary |-> Fixed("Connectivity test results"), status |-> "successful",
          latency |-> "15ms", packet_loss |-> "0%",
          explanation |-> "Connection is working well with low latency",
          recommendations |-> <<"Connection is healthy">>]
    ELSE IF t = "traceroute_mock"
    THEN [route |-> <<"hop 1">>, analysis |-> "Route appears normal with low latency",
          issues |-> <<>>, recommendations |-> <<"Monitor for latency spikes">>]
    ELSE [summary |-> Fixed("Unable to get AI explanation"), error |-> TRUE,
          explanation |-> "LLM service unavailable. Please check your configuration.",
          recommendations |-> <<"Verify API keys", "Check network connectivity">>]

(***************************************************************************)
(* CommandProcessor: the pure parts of process_command.                    *)
(***************************************************************************)
ProcessedCommand(cmd, original_output, expl, execution_time, status, timestamp, metadata) ==
    [command |-> cmd, original_output |-> original_output, explanation |-> expl,
     execution_time |-> execution_time, status |-> status, timestamp |-> timestamp,
     metadata |-> metadata]

\* a variant of _create_error_result that leaves the reason out of the summary
create_error_result_without_reason(cmd, error, now) ==
    ProcessedCommand(cmd, <<>>,
                     [summary |-> Fixed("Processing error: "), error |-> TRUE],
                     0, ERROR, now, [error |-> error])

\* _create_error_result
create_error_result(cmd, error, now) ==
    ProcessedCommand(cmd, <<>>,
                     [summary |-> Fixed("Processing error: ") \o error, error |-> TRUE],
                     0, ERROR, now, [error |-> error])

\* the prompt _get_explanation sends: the template of the command, filled in
Prompt(cmd, output) ==
    [template |-> get_command_template(cmd.text), command |-> cmd.text, output |-> output]

\* a variant of _get_explanation without the handler of json.JSONDecodeError
get_explanation_without_parse_handler(outcome) ==
    IF outcome.kind = "raises"
    THEN [summary |-> Fixed("Error getting explanation: ") \o Fixed(outcome.text),
          error |-> TRUE]
    ELSE IF JsonKind(outcome.text) = "invalid"
    THEN [summary |-> Fixed("Error getting explanation: ") \o Fixed("JSONDecodeError"),
          error |-> TRUE]
    ELSE IF JsonKind(outcome.text) = "other"
    THEN [summary |-> Fixed("Error getting explanation: ") \o Fixed("TypeError"),
          error |-> TRUE]
    ELSE JsonObject(outcome.text) @@ [raw_llm_response |-> outcome.text]

\* _get_explanation, given what the collaborator did
get_explanation(outcome) ==
    IF outcome.kind = "raises"
    THEN [summary |-> Fixed("Error getting explanation: ") \o Fixed(outcome.text),
          error |-> TRUE]
    ELSE IF JsonKind(outcome.text) = "invalid"
    THEN [summary |-> Fixed("Unable to parse LLM response"),
          raw_response |-> outcome.text, parse_error |-> "JSONDecodeError"]
    ELSE IF JsonKind(outcome.text) = "other"
    THEN \* explanation['raw_llm_response'] = response raises TypeError
         [summary |-> Fixed("Error getting explanation: ") \o Fixed("TypeError"),
          error |-> TRUE]
    ELSE JsonObject(outcome.text) @@ [raw_llm_response |-> outcome.text]

\* _create_error_explanation
create_error_explanation(result, sys, executor_timeout) ==
    LET s == result.command.text
        base_cmd == FirstToken(s)
        alternative == suggest_alternative(s, sys)
        status == result.status
        summary ==
            IF status = NOT_FOUND
                THEN <<Part("Command not found on this system", base_cmd, 0)>>
            ELSE IF status = PERMISSION_DENIED
                THEN <<Part("Permission denied when executing", s, 0)>>
            ELSE IF status = TIMEOUT
                THEN <<Part("Command timed out after seconds", <<>>, executor_timeout)>>
            ELSE IF status = ERROR
                THEN <<Part("Command failed with return code", <<>>, result.return_code)>>
            ELSE Fixed("Command execution failed")
        explanation0 ==
            [summary |-> summary, error |-> TRUE, error_type |-> status,
             return_code |-> result.return_code,
             error_output |-> result.error]
    IN  IF alternative # None
        THEN explanation0 @@ [suggestion |-> alternative,
                              help_text |-> format_command_help(alternative)]
        ELSE explanation0

(***************************************************************************)
(* The inputs.  Pad is a run of characters one longer than the bound of    *)
(* the validator; a command is a concatenation of a few atoms.             *)
(***************************************************************************)
Pad == [i \in 1..(max_command_length + 1) |-> "x"]

RECURSIVE Concats(_, _)
Concats(atoms, n) ==
    IF n = 0 THEN { <<>> }
    ELSE LET shorter == Concats(atoms, n - 1)
         IN  shorter \cup { a \o s : a \in atoms, s \in shorter }

Str(s) == [kind |-> "str", text |-> s]

NoneValue == [kind |-> "none", text |-> <<>>]

IntValue == [kind |-> "int", text |-> <<>>]

ValidatorAtoms ==
    { <<"p","i","n","g">>, <<"r","m">>, <<"R","m">>, <<"s","u","d","o">>, <<"s","s","h">>,
      <<"l","s">>, <<" ">>, <<";">>, <<"'">>, <<"!">>, <<"$">> }

\* the short strings, and the shorter ones made too long by a Pad at their end
ValidatorInputs ==
    { Str(s) : s \in Concats(ValidatorAtoms, MaxAtoms) }
    \cup { Str(s \o Pad) : s \in Concats(ValidatorAtoms, MaxAtoms - 1) }

CommandAtoms ==
    { <<"p","i","n","g">>, <<"i","p">>, <<"r","m">>, <<"l","s">>, <<" ">>, <<";","r","m">>,
      <<"'">>, <<" ","|"," ","w","c">>, <<"I","P">> }

\* what a caller passes to process_command: a str, None or a number
ProcessInputs ==
    { Str(s) : s \in Concats(CommandAtoms, MaxCmdAtoms) }
    \cup { Str(s \o Pad) : s \in Concats(CommandAtoms, 1) }
    \cup { NoneValue, IntValue }

\* what a caller passes to execute
ExecuteInputs == { Str(s) : s \in Concats(CommandAtoms, MaxCmdAtoms) }

Systems == { "linux", "darwin", "windows", "freebsd" }

\* the exit codes of a child, and what it wrote to its pipes
ExitCodes == { 0, 1, 126, 127 }

ChildOutputs ==
    { [stdout |-> <<"o","k">>, stderr |-> <<>>],
      [stdout |-> <<>>, stderr |-> <<"e", BadByte>>] }

\* the exceptions the operating system raises for a spawn request
SpawnErrors == { "FileNotFoundError", "PermissionError", "OSError" }

(***************************************************************************)
(* The state after construction.                                           *)
(***************************************************************************)
NoResult == Return(None)

NoRequest == create_subprocess(<<>>)

NoChild ==
    [state |-> "none", pipes |-> "none", returncode |-> 0,
     stdout |-> <<>>, stderr |-> <<>>, ended_at |-> 0]

NoExecution == CommandResult(NoneValue, <<>>, <<>>, "none", 0, 0)

Constructed ==
    /\ entry = "none"
    /\ validation_result = NoResult
    /\ clock = 0
    /\ proc_start = 0
    /\ start_time = 0
    /\ request = NoRequest
    /\ child = NoChild
    /\ os_spawns = <<>>
    /\ os_programs = <<>>
    /\ exec_calls = 0
    /\ execution_result = NoExecution
    /\ llm_calls = <<>>
    /\ results = <<>>
    /\ propagated = "none"
    /\ returned = None
    /\ llm_client = [provider |-> "mock", session |-> "none"]
    /\ tasks = <<>>
    /\ active_connections = <<>>
    /\ handlers = <<>>

Init ==
    /\ Constructed
    /\ command = NoneValue
    /\ pc = "Idle"
    /\ system \in Systems

(***************************************************************************)
(* CommandProcessor.process_command, up to the call of the executor.       *)
(***************************************************************************)
ProcessCommand(cmd) ==
    /\ pc = "Idle"
    /\ command' = cmd
    /\ entry' = "process_command"
    /\ proc_start' = clock
    /\ pc' = "Validating"
    /\ UNCHANGED <<others, validation_result, system, clock, start_time, request, child, os_spawns,
                   os_programs, exec_calls, execution_result, llm_calls, results, propagated>>

\* a variant of AfterValidation without the early return of a rejected command
AfterValidation_no_early_return(vr) ==
    IF vr.raised THEN "Faulted" ELSE "Executing"

\* where process_command goes with the validator's answer
AfterValidation(vr) ==
    IF vr.raised THEN "Faulted"
    ELSE IF ~vr.value.valid THEN "Rejected"
    ELSE "Executing"

ValidateStep ==
    /\ pc = "Validating"
    /\ validation_result' = validate_command(command)
    /\ pc' = AfterValidation(validation_result')
    /\ UNCHANGED <<others, command, entry, system, clock, proc_start, start_time, request, child,
                   os_spawns, os_programs, exec_calls, execution_result, llm_calls, results,
                   propagated>>

\* return self._create_error_result(command, validation_result.error)
RejectReturn ==
    /\ pc = "Rejected"
    /\ results' = Append(results, create_error_result(command, validation_result.value.error, clock))
    /\ pc' = "Done"
    /\ UNCHANGED <<others, command, entry, validation_result, system, clock, proc_start, start_time,
                   request, child, os_spawns, os_programs, exec_calls, execution_result,
                   llm_calls, propagated>>

\* a variant of the handler that raises the exception again
except_handler_reraises(cmd, exc, now) == Raise(exc)

\* except Exception as e: return self._create_error_result(command, str(e))
except_handler(cmd, exc, now) == Return(create_error_result(cmd, Fixed(exc), now))

HandleFault ==
    /\ pc = "Faulted"
    /\ LET r == except_handler(command, validation_result.exc, clock)
       IN  IF r.raised
           THEN propagated' = r.exc /\ results' = results
           ELSE propagated' = propagated /\ results' = Append(results, r.value)
    /\ pc' = "Done"
    /\ UNCHANGED <<others, command, entry, validation_result, system, clock, proc_start, start_time,
                   request, child, os_spawns, os_programs, exec_calls, execution_result,
                   llm_calls>>

(***************************************************************************)
(* CommandExecutor.execute.  ExecuteDirect is a caller of execute other    *)
(* than process_command.                                                   *)
(***************************************************************************)
ExecuteDirect(cmd) ==
    /\ pc = "Idle"
    /\ command' = cmd
    /\ entry' = "execute"
    /\ pc' = "Executing"
    /\ UNCHANGED <<others, validation_result, system, clock, proc_start, start_time, request, child,
                   os_spawns, os_programs, exec_calls, execution_result, llm_calls, results,
                   propagated>>

\* start_time, cmd_parts, and the call of wait_for(self._create_subprocess(cmd_parts))
ExecStart ==
    /\ pc = "Executing"
    /\ exec_calls' = exec_calls + 1
    /\ start_time' = clock
    /\ request' = create_subprocess(parse_command(command.text))
    /\ pc' = "Spawning"
    /\ UNCHANGED <<others, command, entry, validation_result, system, clock, proc_start, child,
                   os_spawns, os_programs, execution_result, llm_calls, results, propagated>>

\* a variant of the FileNotFoundError handler that names the whole command line
spawn_failure_whole_command(cmd, exc) ==
    IF exc = "FileNotFoundError"
    THEN CommandResult(cmd, <<>>, <<Part("Command not found: ", cmd.text, 0)>>,
                       NOT_FOUND, -1, 0)
    ELSE IF exc = "PermissionError"
    THEN CommandResult(cmd, <<>>, <<Part("Permission denied: ", cmd.text, 0)>>,
                       PERMISSION_DENIED, -1, 0)
    ELSE CommandResult(cmd, <<>>, Fixed("Unexpected error: ") \o Fixed(exc), ERROR, -1, 0)

\* the except clauses of execute for an exception of the spawn
spawn_failure(cmd, exc) ==
    IF exc = "FileNotFoundError"
    THEN CommandResult(cmd, <<>>, <<Part("Command not found: ", FirstToken(cmd.text), 0)>>,
                       NOT_FOUND, -1, 0)
    ELSE IF exc = "PermissionError"
    THEN CommandResult(cmd, <<>>, <<Part("Permission denied: ", cmd.text, 0)>>,
                       PERMISSION_DENIED, -1, 0)
    ELSE CommandResult(cmd, <<>>, Fixed("Unexpected error: ") \o Fixed(exc), ERROR, -1, 0)

\* create_subprocess_exec raises: TypeError without a program, else an error of the OS
SpawnFail(exc) ==
    /\ pc = "Spawning"
    /\ exc \in (IF request.argv = <<>> THEN {"TypeError"} ELSE SpawnErrors)
    /\ os_spawns' = IF request.argv = <<>> THEN os_spawns ELSE Append(os_spawns, request)
    /\ execution_result' = spawn_failure(command, exc)
    /\ pc' = "Executed"
    /\ UNCHANGED <<others, command, entry, validation_result, system, clock, proc_start, start_time,
                   request, child, os_programs, exec_calls, llm_calls, results, propagated>>

\* the operating system starts the child; create_subprocess_exec has not returned yet
SpawnFork ==
    /\ pc = "Spawning"
    /\ request.argv # <<>>
    /\ os_spawns' = Append(os_spawns, request)
    /\ os_programs' = os_programs \o OsLaunch(request)
    /\ child' = [state |-> "running", pipes |-> "open", returncode |-> 0,
                 stdout |-> <<>>, stderr |-> <<>>, ended_at |-> 0]
    /\ pc' = "Forked"
    /\ UNCHANGED <<others, command, entry, validation_result, system, clock, proc_start, start_time,
                   request, exec_calls, execution_result, llm_calls, results, propagated>>

\* wait_for returns the process; execute goes on to process.communicate()
SpawnReturn ==
    /\ pc = "Forked"
    /\ pc' = "Communicating"
    /\ UNCHANGED <<others, command, entry, validation_result, system, clock, proc_start, start_time,
                   request, child, os_spawns, os_programs, exec_calls, execution_result,
                   llm_calls, results, propagated>>

\* a variant of the cancellation that leaves a child already started alone
cancel_spawn_leaves_child(ch, now) == ch

\* wait_for cancels create_subprocess_exec, whose cleanup kills a child already started
cancel_spawn(ch, now) ==
    IF ch.state = "running"
    THEN [ch EXCEPT !.state = "killed", !.pipes = "closed", !.returncode = -9, !.ended_at = now]
    ELSE ch

\* except asyncio.TimeoutError
\* a variant of the TimeoutError handler that reports the exit code of a killed child
timeout_result_signal_code(cmd, executor_timeout) ==
    CommandResult(cmd, <<>>, <<Part("Command timed out after seconds", <<>>, executor_timeout)>>,
                  TIMEOUT, -9, executor_timeout)

timeout_result(cmd, executor_timeout) ==
    CommandResult(cmd, <<>>, <<Part("Command timed out after seconds", <<>>, executor_timeout)>>,
                  TIMEOUT, -1, executor_timeout)

\* the positions at which the timer of wait_for runs
TimerRuns(p) == p \in {"Spawning", "Forked"}

TimerDue == TimerRuns(pc) /\ clock - start_time >= timeout

SpawnTimeout ==
    /\ TimerDue
    /\ child' = cancel_spawn(child, clock)
    /\ execution_result' = timeout_result(command, timeout)
    /\ pc' = "Executed"
    /\ UNCHANGED <<others, command, entry, validation_result, system, clock, proc_start, start_time,
                   request, os_spawns, os_programs, exec_calls, llm_calls, results, propagated>>

\* the child ends by itself (or by a signal that is not the executor's)
ChildExit(code, out) ==
    /\ child.state = "running"
    /\ child' = [state |-> "exited", pipes |-> "closed", returncode |-> code,
                 stdout |-> out.stdout, stderr |-> out.stderr, ended_at |-> clock]
    /\ UNCHANGED <<others, command, entry, pc, validation_result, system, clock, proc_start,
                   start_time, request, os_spawns, os_programs, exec_calls, execution_result,
                   llm_calls, results, propagated>>

\* time passes while the call awaits; a due timer fires before time goes on
Tick ==
    /\ pc \in {"Spawning", "Forked", "Communicating", "ExplainingSuccess"}
    /\ clock < MaxClock
    /\ ~TimerDue
    /\ clock' = clock + 1
    /\ UNCHANGED <<others, command, entry, pc, validation_result, system, proc_start, start_time,
                   request, child, os_spawns, os_programs, exec_calls, execution_result,
                   llm_calls, results, propagated>>

\* process.communicate() returns when the pipes are at end of file and the child is reaped
communicate_done(ch) == ch.state # "running" /\ ch.pipes = "closed"

CommunicateReturn ==
    /\ pc = "Communicating"
    /\ communicate_done(child)
    /\ execution_result' =
           CommandResult(command, Decode(child.stdout), Decode(child.stderr),
                         determine_status(child.returncode, child.stderr),
                         child.returncode, clock - start_time)
    /\ pc' = "Executed"
    /\ UNCHANGED <<others, command, entry, validation_result, system, clock, proc_start, start_time,
                   request, child, os_spawns, os_programs, exec_calls, llm_calls, results,
                   propagated>>

ExecuteReturn ==
    /\ pc = "Executed"
    /\ entry = "execute"
    /\ pc' = "Done"
    /\ UNCHANGED <<others, command, entry, validation_result, system, clock, proc_start, start_time,
                   request, child, os_spawns, os_programs, exec_calls, execution_result,
                   llm_calls, results, propagated>>

(***************************************************************************)
(* CommandProcessor.process_command, after the executor returned.          *)
(***************************************************************************)
\* a variant of the test of process_command that asks whenever there is output
asks_collaborator_on_output(result) == result.output # <<>>

\* if execution_result.status == CommandStatus.SUCCESS
asks_collaborator(result) == result.status = SUCCESS

\* a variant of Dispatch that runs a command that did not succeed once more
Dispatch_retrying ==
    /\ pc = "Executed"
    /\ entry = "process_command"
    /\ IF asks_collaborator(execution_result)
       THEN /\ llm_calls' = Append(llm_calls, Prompt(command, execution_result.output))
            /\ pc' = "ExplainingSuccess"
       ELSE /\ llm_calls' = llm_calls
            /\ pc' = IF exec_calls < 2 THEN "Executing" ELSE "SynthesizingErrorExplanation"
    /\ UNCHANGED <<others, command, entry, validation_result, system, clock, proc_start, start_time,
                   request, child, os_spawns, os_programs, exec_calls, execution_result,
                   results, propagated>>

\* the branch on the status; on success _get_explanation sends the prompt
Dispatch ==
    /\ pc = "Executed"
    /\ entry = "process_command"
    /\ IF asks_collaborator(execution_result)
       THEN /\ llm_calls' = Append(llm_calls, Prompt(command, execution_result.output))
            /\ pc' = "ExplainingSuccess"
       ELSE /\ llm_calls' = llm_calls
            /\ pc' = "SynthesizingErrorExplanation"
    /\ UNCHANGED <<others, command, entry, validation_result, system, clock, proc_start, start_time,
                   request, child, os_spawns, os_programs, exec_calls, execution_result,
                   results, propagated>>

\* return ProcessedCommand(...) with the explanation expl
processed(expl) ==
    ProcessedCommand(command, execution_result.output, expl, clock - proc_start,
                     execution_result.status, clock,
                     [return_code |-> execution_result.return_code,
                      error_output |-> execution_result.error,
                      validation |-> validation_result.value])

\* the collaborator answers (or raises) and process_command returns
Explain(outcome) ==
    /\ pc = "ExplainingSuccess"
    /\ results' = Append(results, processed(get_explanation(outcome)))
    /\ pc' = "Done"
    /\ UNCHANGED <<others, command, entry, validation_result, system, clock, proc_start, start_time,
                   request, child, os_spawns, os_programs, exec_calls, execution_result,
                   llm_calls, propagated>>

Synthesize ==
    /\ pc = "SynthesizingErrorExplanation"
    /\ results' = Append(results,
                         processed(create_error_explanation(execution_result, system, timeout)))
    /\ pc' = "Done"
    /\ UNCHANGED <<others, command, entry, validation_result, system, clock, proc_start, start_time,
                   request, child, os_spawns, os_programs, exec_calls, execution_result,
                   llm_calls, propagated>>

Next ==
    \/ \E cmd \in ProcessInputs : ProcessCommand(cmd)
    \/ ValidateStep
    \/ RejectReturn
    \/ HandleFault
    \/ ExecStart
    \/ \E exc \in SpawnErrors \cup {"TypeError"} : SpawnFail(exc)
    \/ SpawnFork
    \/ SpawnReturn
    \/ SpawnTimeout
    \/ \E code \in ExitCodes, out \in ChildOutputs : ChildExit(code, out)
    \/ Tick
    \/ CommunicateReturn
    \/ Dispatch
    \/ \E outcome \in LlmOutcomes : Explain(outcome)
    \/ Synthesize

Spec == Init /\ [][Next]_vars

(***************************************************************************)
(* SpecExecute: execute called by itself, on any string.                   *)
(***************************************************************************)
InitExecute ==
    /\ Constructed
    /\ command = NoneValue
    /\ pc = "Idle"
    /\ system = "linux"

NextExecute ==
    \/ \E cmd \in ExecuteInputs : ExecuteDirect(cmd)
    \/ ExecStart
    \/ \E exc \in SpawnErrors \cup {"TypeError"} : SpawnFail(exc)
    \/ SpawnFork
    \/ SpawnReturn
    \/ SpawnTimeout
    \/ \E code \in ExitCodes, out \in ChildOutputs : ChildExit(code, out)
    \/ Tick
    \/ CommunicateReturn
    \/ ExecuteReturn

SpecExecute == InitExecute /\ [][NextExecute]_vars

(***************************************************************************)
(* SpecValidate: validate_command applied to one string.                   *)
(***************************************************************************)
InitValidate ==
    /\ Constructed
    /\ command \in ValidatorInputs
    /\ pc = "validate"
    /\ system = "linux"

Validate ==
    /\ pc = "validate"
    /\ validation_result' = validate_command(command)
    /\ pc' = "validated"
    /\ UNCHANGED <<others, command, entry, system, clock, proc_start, start_time, request, child,
                   os_spawns, os_programs, exec_calls, execution_result, llm_calls, results,
                   propagated>>

NextValidate == Validate

SpecValidate == InitValidate /\ [][NextValidate]_vars

(***************************************************************************)
(* SpecStatus: _determine_status applied to one exit code and one stderr.  *)
(***************************************************************************)
\* the exit codes given to _determine_status alone: -MaxExitCode..MaxExitCode
MaxExitCode == 128

StderrTexts ==
    { <<>>,
      <<"n","o","t"," ","f","o","u","n","d">>,
      <<"d","e","n","i","e","d">>,
      <<BadByte>> }

InitStatus ==
    /\ entry = "determine_status"
    /\ pc = "classify"
    /\ system \in Systems
    /\ \E code \in (0 - MaxExitCode)..MaxExitCode, text \in StderrTexts :
           child = [state |-> "exited", pipes |-> "closed", returncode |-> code,
                    stdout |-> <<>>, stderr |-> text, ended_at |-> 0]
    /\ command = NoneValue
    /\ validation_result = NoResult
    /\ clock = 0
    /\ proc_start = 0
    /\ start_time = 0
    /\ request = NoRequest
    /\ os_spawns = <<>>
    /\ os_programs = <<>>
    /\ exec_calls = 0
    /\ execution_result = NoExecution
    /\ llm_calls = <<>>
    /\ results = <<>>
    /\ propagated = "none"
    /\ returned = None
    /\ llm_client = [provider |-> "mock", session |-> "none"]
    /\ tasks = <<>>
    /\ active_connections = <<>>
    /\ handlers = <<>>

Classify ==
    /\ pc = "classify"
    /\ execution_result' =
           [execution_result EXCEPT !.status = determine_status(child.returncode, child.stderr),
                                    !.return_code = child.returncode]
    /\ pc' = "classified"
    /\ UNCHANGED <<others, command, entry, validation_result, system, clock, proc_start, start_time,
                   request, child, os_spawns, os_programs, exec_calls, llm_calls, results,
                   propagated>>

NextStatus == Classify

SpecStatus == InitStatus /\ [][NextStatus]_vars

(***************************************************************************)
(* SpecSanitize: sanitize_command applied to one string.                   *)
(***************************************************************************)
SanitizeAtoms ==
    { <<"p","i","n","g">>, <<" ">>, <<"\t">>, <<";">>, <<"&">>, <<"|">>, <<Backtick>>,
      <<"$">>, <<"(">>, <<")">> }

InitSanitize ==
    /\ Constructed
    /\ command \in { Str(s) : s \in Concats(SanitizeAtoms, MaxAtoms) }
    /\ pc = "sanitize"
    /\ system = "linux"

SanitizeCommand ==
    /\ pc = "sanitize"
    /\ returned' = sanitize_command(command.text)
    /\ pc' = "sanitized"
    /\ UNCHANGED <<command, entry, validation_result, system, clock, proc_start, start_time,
                   request, child, os_spawns, os_programs, exec_calls, execution_result,
                   llm_calls, results, propagated, llm_client, tasks, active_connections,
                   handlers>>

SpecSanitize == InitSanitize /\ [][SanitizeCommand]_vars

(***************************************************************************)
(* SpecAvailable: CommandExecutor.is_command_available, which runs the     *)
(* path-resolution probe (which, or where on Windows) with subprocess.run. *)
(***************************************************************************)
\* what subprocess.run does: the probe exits, or the call raises
ProbeOutcomes ==
    { [kind |-> "exits", code |-> c] : c \in {0, 1} }
    \cup { [kind |-> "raises", exc |-> e] :
              e \in {"TimeoutExpired", "FileNotFoundError", "PermissionError", "OSError"} }

\* return result.returncode == 0 / except (subprocess.TimeoutExpired, FileNotFoundError)
is_command_available(outcome) ==
    IF outcome.kind = "exits" THEN Return(outcome.code = 0)
    ELSE IF outcome.exc \in {"TimeoutExpired", "FileNotFoundError"} THEN Return(FALSE)
    ELSE Raise(outcome.exc)

InitAvailable ==
    /\ Constructed
    /\ command \in ExecuteInputs
    /\ pc = "probe"
    /\ system \in Systems

IsCommandAvailable(outcome) ==
    /\ pc = "probe"
    /\ request' = [api |-> "run",
                   argv |-> <<IF system # "windows" THEN <<"w","h","i","c","h">>
                                                    ELSE <<"w","h","e","r","e">>,
                              command.text>>,
                   stdin |-> "INHERIT", stdout |-> "PIPE", stderr |-> "PIPE"]
    /\ child' = IF outcome.kind = "exits"
                THEN [state |-> "exited", pipes |-> "closed", returncode |-> outcome.code,
                      stdout |-> <<>>, stderr |-> <<>>, ended_at |-> clock]
                ELSE child
    /\ LET r == is_command_available(outcome)
       IN  IF r.raised
           THEN propagated' = r.exc /\ returned' = returned
           ELSE propagated' = propagated /\ returned' = r.value
    /\ pc' = "probed"
    /\ UNCHANGED <<command, entry, validation_result, system, clock, proc_start, start_time,
                   os_spawns, os_programs, exec_calls, execution_result, llm_calls, results,
                   llm_client, tasks, active_connections, handlers>>

NextAvailable == \E outcome \in ProbeOutcomes : IsCommandAvailable(outcome)

SpecAvailable == InitAvailable /\ [][NextAvailable]_vars

(***************************************************************************)
(* SpecClient: the calls of LLMClient.get_explanation that the invocations *)
(* of process_command make on the one client of a CommandProcessor.  A     *)
(* call is a record: pc, its position; saw, the session it found; owner,   *)
(* whether it entered "async with self"; reply, what it returned; cause,   *)
(* why the reply is the fallback response.  A coroutine runs without       *)
(* interruption up to its next await of the network.                       *)
(***************************************************************************)
\* the number of calls of get_explanation
MaxTasks == 3

Providers == { "openai", "anthropic", "mock" }

InitClient ==
    /\ Constructed
    /\ command = NoneValue
    /\ pc = "Idle"
    /\ system = "linux"

\* LLMClient(config): the provider of the configuration
Configure(p) ==
    /\ pc = "Idle"
    /\ llm_client' = [llm_client EXCEPT !.provider = p]
    /\ pc' = "Serving"
    /\ UNCHANGED <<command, entry, validation_result, system, clock, proc_start, start_time,
                   request, child, os_spawns, os_programs, exec_calls, execution_result,
                   llm_calls, results, propagated, returned, tasks, active_connections,
                   handlers>>

\* if not self.session: async with self: ... -- __aenter__ sets self.session
aenter(client) ==
    IF client.session = "none" THEN [client EXCEPT !.session = "open"] ELSE client

\* __aexit__: if self.session: await self.session.close() -- the field keeps the session
aexit(client) ==
    IF client.session # "none" THEN [client EXCEPT !.session = "closed"] ELSE client

\* _get_explanation_internal up to its first await of the network: the mock
\* answers at once; session.post on a closed session raises RuntimeError, which
\* the except clause turns into the fallback response
internal_start(client) ==
    IF client.provider = "mock" THEN [pc |-> "answered", reply |-> "mock", cause |-> "none"]
    ELSE IF client.session = "closed"
        THEN [pc |-> "answered", reply |-> "fallback", cause |-> "session_closed"]
    ELSE [pc |-> "posting", reply |-> "none", cause |-> "none"]

\* a call has its reply: the owner of the session goes on to __aexit__
after_reply(owner) == IF owner THEN "exiting" ELSE "done"

GetExplanation ==
    /\ pc = "Serving"
    /\ Len(tasks) < MaxTasks
    /\ LET owner == llm_client.session = "none"
           client == aenter(llm_client)
           st == internal_start(client)
       IN  /\ llm_client' = client
           /\ tasks' = Append(tasks,
                  [pc |-> IF st.pc = "answered" THEN after_reply(owner) ELSE st.pc,
                   saw |-> llm_client.session, owner |-> owner,
                   reply |-> st.reply, cause |-> st.cause])
    /\ UNCHANGED <<command, entry, pc, validation_result, system, clock, proc_start,
                   start_time, request, child, os_spawns, os_programs, exec_calls,
                   execution_result, llm_calls, results, propagated, returned,
                   active_connections, handlers>>

\* the request of call t ends: the API answers (ok) or reports an error, and a
\* request on a session that was closed meanwhile fails; every failure is
\* turned into the fallback response
PostEnds(t, ok) ==
    /\ t \in DOMAIN tasks
    /\ tasks[t].pc = "posting"
    /\ tasks' = [tasks EXCEPT
           ![t].pc = after_reply(tasks[t].owner),
           ![t].reply = IF llm_client.session = "open" /\ ok THEN "llm" ELSE "fallback",
           ![t].cause = IF llm_client.session # "open" THEN "session_closed"
                        ELSE IF ok THEN "none" ELSE "api_error"]
    /\ UNCHANGED <<command, entry, pc, validation_result, system, clock, proc_start,
                   start_time, request, child, os_spawns, os_programs, exec_calls,
                   execution_result, llm_calls, results, propagated, returned, llm_client,
                   active_connections, handlers>>

\* the call that entered "async with self" leaves it
AExit(t) ==
    /\ t \in DOMAIN tasks
    /\ tasks[t].pc = "exiting"
    /\ llm_client' = aexit(llm_client)
    /\ tasks' = [tasks EXCEPT ![t].pc = "done"]
    /\ UNCHANGED <<command, entry, pc, validation_result, system, clock, proc_start,
                   start_time, request, child, os_spawns, os_programs, exec_calls,
                   execution_result, llm_calls, results, propagated, returned,
                   active_connections, handlers>>

NextClient ==
    \/ \E p \in Providers : Configure(p)
    \/ GetExplanation
    \/ \E t \in 1..MaxTasks, ok \in BOOLEAN : PostEnds(t, ok)
    \/ \E t \in 1..MaxTasks : AExit(t)

SpecClient == InitClient /\ [][NextClient]_vars

(***************************************************************************)
(* SpecServer: WebServer.websocket_endpoint.  A websocket is its number;   *)
(* handlers[w] is the coroutine serving websocket w: pc "receiving" while  *)
(* it awaits receive_text, "ended" once it returned or raised, with the    *)
(* exception that ended it.                                                *)
(***************************************************************************)
\* the number of websockets that connect
MaxConnections == 3

\* what receive_text gives: the client has gone, or a text
Messages ==
    { "disconnect", "not_json", "json_array", "other_type", "execute_without_command",
      "execute" }

\* one turn of the loop of websocket_endpoint: the exception that ends it, or
\* "none" when the loop goes on.  process_command returns a ProcessedCommand,
\* a dataclass, which json.dumps cannot serialise
loop_turn(msg) ==
    IF msg = "disconnect" THEN "WebSocketDisconnect"
    ELSE IF msg = "not_json" THEN "JSONDecodeError"
    ELSE IF msg = "json_array" THEN "AttributeError"
    ELSE IF msg = "other_type" THEN "none"
    ELSE IF msg = "execute_without_command" THEN "KeyError"
    ELSE "TypeError"

\* list.remove(websocket)
remove(list, w) == SelectSeq(list, LAMBDA x : x # w)

InitServer ==
    /\ Constructed
    /\ command = NoneValue
    /\ pc = "Serving"
    /\ system = "linux"

\* await websocket.accept(); self.active_connections.append(websocket)
Accept ==
    /\ Len(handlers) < MaxConnections
    /\ handlers' = Append(handlers, [pc |-> "receiving", exc |-> "none"])
    /\ active_connections' = Append(active_connections, Len(handlers) + 1)
    /\ UNCHANGED <<command, entry, pc, validation_result, system, clock, proc_start,
                   start_time, request, child, os_spawns, os_programs, exec_calls,
                   execution_result, llm_calls, results, propagated, returned, llm_client,
                   tasks>>

\* receive_text returns or raises, and the loop takes one turn; only
\* "except WebSocketDisconnect" removes the websocket
Receive(w, msg) ==
    /\ w \in DOMAIN handlers
    /\ handlers[w].pc = "receiving"
    /\ LET exc == loop_turn(msg)
       IN  /\ handlers' = IF exc = "none" THEN handlers
                          ELSE [handlers EXCEPT ![w] = [pc |-> "ended", exc |-> exc]]
           /\ active_connections' = IF exc = "WebSocketDisconnect"
                                    THEN remove(active_connections, w)
                                    ELSE active_connections
    /\ UNCHANGED <<command, entry, pc, validation_result, system, clock, proc_start,
                   start_time, request, child, os_spawns, os_programs, exec_calls,
                   execution_result, llm_calls, results, propagated, returned, llm_client,
                   tasks>>

NextServer ==
    \/ Accept
    \/ \E w \in 1..MaxConnections, msg \in Messages : Receive(w, msg)

SpecServer == InitServer /\ [][NextServer]_vars

(***************************************************************************)
(* The properties.  Those of process_command are stated of Spec, those of  *)
(* execute of SpecExecute, those of validate_command of SpecValidate.      *)
(***************************************************************************)
\* the validator answered process_command, and its answer was a rejection
Rejected ==
    /\ entry = "process_command"
    /\ pc \notin {"Idle", "Validating"}
    /\ ~validation_result.raised
    /\ ~validation_result.value.valid

\* execute has returned to its caller
ExecuteReturned ==
    \/ entry = "execute" /\ pc = "Done"
    \/ entry = "process_command"
       /\ pc \in {"Executed", "ExplainingSuccess", "SynthesizingErrorExplanation", "Done"}
       /\ exec_calls > 0

\* C1: for a command the validator rejects, process_command returns its result
\* without the executor being called, without any request to the operating
\* system to start a process, and without a prompt sent to the collaborator.
C1_RejectedNeverSpawnsNorExplains ==
    Rejected =>
        /\ exec_calls = 0
        /\ os_spawns = <<>>
        /\ os_programs = <<>>
        /\ child = NoChild
        /\ llm_calls = <<>>
        /\ pc \in {"Rejected", "Done"}
        /\ pc = "Done" =>
               /\ Len(results) = 1
               /\ results[1].status = ERROR
               /\ results[1].explanation.summary
                      = Fixed("Processing error: ") \o validation_result.value.error

\* C1 witness: a rejected command whose result has been returned
C1_RejectedReturned ==
    /\ Rejected
    /\ pc = "Done"
    /\ Len(results) = 1
    /\ Mentions(results[1].explanation.summary, "Dangerous command")

\* the characters a shell would interpret
C2_Metacharacters == { ";", "|", "&", ">", "<", "$", "(", ")", Backtick }

\* quote-aware splitting, and whitespace splitting when that fails
C2_Tokenize(s) == IF ShlexSplit(s).ok THEN ShlexSplit(s).tokens ELSE Split(s)

C3_OverrunReportedAsTimeout ==
    (/\ entry = "execute"
     /\ pc = "Done"
     /\ child.state # "none"
     /\ child.ended_at - start_time > timeout)
    => /\ execution_result.status = TIMEOUT
       /\ execution_result.return_code = -1
       /\ execution_result.output = <<>>
       /\ execution_result.execution_time = timeout

\* C4 (as stated): the wait of execute is bounded by the timeout: a call that
\* has not returned yet started at most timeout ago.
C4_WaitBoundedByTimeout ==
    (entry = "execute" /\ pc \in {"Spawning", "Forked", "Communicating"})
    => clock - start_time <= timeout

\* C5: once execute has returned, no child of the call is running and the pipes
\* of a child are closed; when it returned TIMEOUT, a child that was started was
\* killed by the cancellation, unless it had ended by itself within the timeout.
C5_NoChildOutlivesExecute ==
    ExecuteReturned =>
        /\ child.state # "running"
        /\ child.state # "none" => child.pipes = "closed"
        /\ (execution_result.status = TIMEOUT /\ child.state # "none") =>
               \/ child.state = "killed"
               \/ child.state = "exited" /\ child.ended_at - start_time <= timeout

\* C5 witness: execute returned TIMEOUT and the child it had started is killed
C5_TimedOutChildKilled ==
    /\ entry = "execute"
    /\ pc = "Done"
    /\ execution_result.status = TIMEOUT
    /\ child.state = "killed"
    /\ child.pipes = "closed"

\* C6: process_command never raises to its caller: once it is done it has
\* returned exactly one ProcessedCommand, whatever the validator, the executor
\* or the collaborator did; when its handler caught an exception the result has
\* status ERROR and an explanation with a summary and error = true.
C6_NeverRaises ==
    /\ propagated = "none"
    /\ (entry = "process_command" /\ pc = "Done") => Len(results) = 1
    /\ (entry = "process_command" /\ pc = "Done" /\ validation_result.raised) =>
           /\ results[1].status = ERROR
           /\ "summary" \in DOMAIN results[1].explanation
           /\ results[1].explanation.summary # <<>>
           /\ results[1].explanation.error = TRUE
           /\ results[1].command = command

\* C6 witness: the validator raised on a command that is no string and the
\* call returned a result
C6_FaultFolded ==
    /\ entry = "process_command"
    /\ pc = "Done"
    /\ command = IntValue
    /\ validation_result.raised
    /\ Len(results) = 1
    /\ Mentions(results[1].explanation.summary, "AttributeError")

\* the states of the specification; the steps of execute are inside Executing
C7_Phase(p) ==
    IF p \in {"Executing", "Spawning", "Forked", "Communicating", "Executed"}
    THEN "Executing"
    ELSE p

C7_StatedEdges ==
    { <<"Idle", "Validating">>,
      <<"Validating", "Rejected">>,
      <<"Validating", "Executing">>,
      <<"Rejected", "Done">>,
      <<"Executing", "ExplainingSuccess">>,
      <<"Executing", "SynthesizingErrorExplanation">>,
      <<"ExplainingSuccess", "Done">>,
      <<"SynthesizingErrorExplanation", "Done">> }

\* the way of an exception that the handler of process_command catches
C7_FaultEdges == { <<"Validating", "Faulted">>, <<"Faulted", "Done">> }

C7_Moves(edges) == C7_Phase(pc') = C7_Phase(pc) \/ <<C7_Phase(pc), C7_Phase(pc')>> \in edges

\* one result, at Done and not before; the executor at most once and only for an
\* accepted command; one request to the operating system at most; the
\* collaborator at most once and only after the executor returned
C7_AtMostOnce ==
    /\ exec_calls <= 1
    /\ Len(os_spawns) <= 1
    /\ Len(llm_calls) <= 1
    /\ results # <<>> <=> pc = "Done"
    /\ Len(results) <= 1
    /\ exec_calls > 0 => (~validation_result.raised /\ validation_result.value.valid)
    /\ llm_calls # <<>> =>
           /\ pc \in {"ExplainingSuccess", "Done"}
           /\ exec_calls = 1
           /\ execution_result.status = SUCCESS

\* C7 (as stated): an invocation moves only along Validating -> {Rejected |
\* Executing} -> {ExplainingSuccess | SynthesizingErrorExplanation} -> Done,
\* yields one result, and calls the executor and the collaborator at most once.
C7_OnlyStatedPath == []C7_AtMostOnce /\ [][C7_Moves(C7_StatedEdges)]_vars

\* C7 (amended): an invocation moves only along the stated path or, when the
\* handler catches an exception of the validator, from Validating to Done with
\* the error result; it yields one result, calls the executor at most once and
\* only after the validator accepted, asks the collaborator at most once and
\* only after the executor returned, and never runs a command a second time.
C7_StatedPathOrFault ==
    []C7_AtMostOnce /\ [][C7_Moves(C7_StatedEdges \cup C7_FaultEdges)]_vars

\* C7 witness: an invocation went all the way, with one call of the executor,
\* one prompt and one result
C7_FullPathOnce ==
    /\ entry = "process_command"
    /\ pc = "Done"
    /\ exec_calls = 1
    /\ Len(os_spawns) = 1
    /\ Len(llm_calls) = 1
    /\ Len(results) = 1
    /\ results[1].status = SUCCESS

\* the six checks in the stated order: the number of the first that fails, or 0
C8_FirstFailing(s) ==
    IF Blank(s) THEN 1
    ELSE IF Len(s) > 1000 THEN 2
    ELSE IF Lower(FirstToken(s)) \in dangerous_commands \cup special_commands THEN 3
    ELSE IF ~allowed_chars_match(s) THEN 4
    ELSE IF ~ShlexSplit(s).ok \/ ShlexSplit(s).tokens = <<>> THEN 5
    ELSE IF ~is_networking_command(s) THEN 6
    ELSE 0

\* the check an error names
C8_Reported(error) ==
    IF error = <<>> THEN 0
    ELSE IF error[1].msg = "Empty command" THEN 1
    ELSE IF error[1].msg = "Command too long" THEN 2
    ELSE IF error[1].msg \in {"Dangerous command", "Special command"} THEN 3
    ELSE IF error[1].msg = "Command contains invalid characters" THEN 4
    ELSE IF error[1].msg = "Invalid command syntax" THEN 5
    ELSE IF error[1].msg = "Command does not appear to be a networking command" THEN 6
    ELSE 7

\* C8: the error of the verdict is the reason of the first failing check in the
\* order emptiness, length, denylisted leading token, character allowlist,
\* tokenizability, networking domain; a command that passes all six is valid,
\* with an empty error and the stripped input as sanitized_command.
C8_FirstFailingCheckWins ==
    pc = "validated" =>
        /\ ~validation_result.raised
        /\ LET s == command.text
               v == validation_result.value
           IN  IF C8_FirstFailing(s) = 0
               THEN v.valid /\ v.error = <<>> /\ v.sanitized_command = Strip(s)
               ELSE ~v.valid /\ C8_Reported(v.error) = C8_FirstFailing(s)

\* C8 witness: a command that starts with rm and is too long is reported too long
C8_LongRmReportedTooLong ==
    /\ pc = "validated"
    /\ Len(command.text) > 1000
    /\ FirstToken(command.text) = <<"r","m">>
    /\ ~validation_result.value.valid
    /\ validation_result.value.error = <<Part("Command too long", <<>>, 1000)>>

C9_DangerousSet ==
    { <<"r","m">>, <<"d","e","l">>, <<"f","o","r","m","a","t">>, <<"d","d">>,
      <<"m","k","f","s">>, <<"f","d","i","s","k">>, <<"s","h","u","t","d","o","w","n">>,
      <<"r","e","b","o","o","t">>, <<"h","a","l","t">>, <<"p","o","w","e","r","o","f","f">>,
      <<"s","u","d","o">>, <<"s","u">>, <<"c","h","m","o","d">>, <<"c","h","o","w","n">> }

C9_SpecialSet ==
    { <<"s","u","d","o">>, <<"s","u">>, <<"s","s","h">>, <<"t","e","l","n","e","t">>,
      <<"f","t","p">> }

\* C9: a command whose first whitespace-delimited token, lowercased, is in the
\* dangerous set or in the special set is rejected, whatever else it contains.
C9_LeadingDenylistedRejected ==
    /\ C9_DangerousSet = dangerous_commands
    /\ C9_SpecialSet = special_commands
    /\ (/\ pc = "validated"
        /\ ~Blank(command.text)
        /\ Lower(FirstToken(command.text)) \in C9_DangerousSet \cup C9_SpecialSet)
       => (~validation_result.raised /\ ~validation_result.value.valid)

\* C9 witness: "Rm ping", in another case and with a networking tool as its
\* argument, is rejected
C9_MixedCaseRmRejected ==
    /\ pc = "validated"
    /\ command.text = <<"R","m"," ","p","i","n","g">>
    /\ ~validation_result.value.valid

\* C10 (as stated): a command of at most 1000 characters whose leading token is
\* in the special set is rejected with a reason that says "Special command" and
\* not "Dangerous command".
C10_SpecialReason ==
    (/\ pc = "validated"
     /\ ~Blank(command.text)
     /\ Len(command.text) <= 1000
     /\ Lower(FirstToken(command.text)) \in C9_SpecialSet)
    => /\ ~validation_result.value.valid
       /\ Mentions(validation_result.value.error, "Special command")
       /\ ~Mentions(validation_result.value.error, "Dangerous command")

\* the checks before the character allowlist pass: the command is not blank,
\* not too long, and its leading token is in neither denylist
ReachesAllowlist(s) ==
    /\ ~Blank(s)
    /\ Len(s) <= max_command_length
    /\ Lower(FirstToken(s)) \notin dangerous_commands \cup special_commands

\* C11 (as stated): a command that contains ; or && or | or a backtick is
\* rejected with the reason "invalid characters", also when it starts with a
\* networking tool.
C11_SeparatorsRejected ==
    (/\ pc = "validated"
     /\ ReachesAllowlist(command.text)
     /\ \/ Contains(command.text, ";")
        \/ ContainsSeq(command.text, <<"&", "&">>)
        \/ Contains(command.text, "|")
        \/ Contains(command.text, Backtick))
    => /\ ~validation_result.value.valid
       /\ Mentions(validation_result.value.error, "Command contains invalid characters")

\* a command that passes every check of validate_command
WellFormedNetworking(s) ==
    /\ ReachesAllowlist(s)
    /\ allowed_chars_match(s)
    /\ ShlexSplit(s).ok
    /\ ShlexSplit(s).tokens # <<>>
    /\ is_networking_command(s)

C12_Characters == { ";", "&", "|", Backtick, "$", "(", ")" }

\* C12 (as stated): an otherwise well-formed networking command that contains
\* one of ; & | backtick $ ( ) is accepted and its verdict has a warning.
C12_MetacharactersWarned ==
    (/\ pc = "validated"
     /\ WellFormedNetworking(command.text)
     /\ \E c \in C12_Characters : Contains(command.text, c))
    => /\ validation_result.value.valid
       /\ validation_result.value.warnings # <<>>

\* programs that are no networking tools
C13_OtherPrograms ==
    { <<"l","s">>, <<"c","a","t">>, <<"g","r","e","p">>, <<"s","o","r","t">> }

\* C13 (as stated): a command whose leading token is a program that is no
\* networking tool is rejected with the "networking command" reason whatever
\* its arguments are.
C13_LeadingTokenDecidesDomain ==
    (/\ pc = "validated"
     /\ ReachesAllowlist(command.text)
     /\ allowed_chars_match(command.text)
     /\ ShlexSplit(command.text).ok
     /\ Lower(FirstToken(command.text)) \in C13_OtherPrograms)
    => /\ ~validation_result.value.valid
       /\ Mentions(validation_result.value.error,
                   "Command does not appear to be a networking command")

\* a well-formed command that is no networking command, such as "ls"
C14_Harmless(s) ==
    /\ ReachesAllowlist(s)
    /\ allowed_chars_match(s)
    /\ ShlexSplit(s).ok
    /\ ShlexSplit(s).tokens # <<>>
    /\ ShlexSplit(s).tokens[1] # <<>>
    /\ \A i \in DOMAIN ShlexSplit(s).tokens[1] : WordChar(ShlexSplit(s).tokens[1][i])
    /\ ~is_networking_command(s)

\* C14 (as stated): process_command runs a well-formed harmless command that is
\* no networking tool and, when its process exits 0, returns SUCCESS with the
\* explanation of the collaborator and execution_time > 0.
C14_HarmlessCommandRuns ==
    (/\ entry = "process_command"
     /\ pc = "Done"
     /\ command.kind = "str"
     /\ C14_Harmless(command.text))
    => /\ exec_calls = 1
       /\ (child.state = "exited" /\ child.returncode = 0) =>
              /\ results[1].status = SUCCESS
              /\ llm_calls # <<>>
              /\ results[1].execution_time > 0

\* C15: for a command the validator rejects with reason r, the result of
\* process_command has status ERROR, the summary "Processing error: " followed
\* by r, error = true, an empty original_output and execution_time 0; "rm"
\* gives a summary with "Dangerous command" and "" one with "Empty command".
C15_RejectionResult ==
    (Rejected /\ pc = "Done") =>
        /\ Len(results) = 1
        /\ results[1].command = command
        /\ results[1].status = ERROR
        /\ results[1].explanation.summary
               = <<Part("Processing error: ", <<>>, 0)>> \o validation_result.value.error
        /\ validation_result.value.error # <<>>
        /\ results[1].explanation.error = TRUE
        /\ results[1].original_output = <<>>
        /\ results[1].execution_time = 0
        /\ FirstToken(command.text \o <<"x">>) = <<"r","m">> =>
               Mentions(results[1].explanation.summary, "Dangerous command")
        /\ command.text = <<>> =>
               Mentions(results[1].explanation.summary, "Empty command")

\* C15 witness: the empty string has been rejected and its result returned
C15_EmptyCommandReturned ==
    /\ entry = "process_command"
    /\ pc = "Done"
    /\ command = Str(<<>>)
    /\ Len(results) = 1
    /\ results[1].explanation.summary = Fixed("Processing error: ") \o Fixed("Empty command")

\* C16 (as stated): every ProcessedCommand returned by process_command, on
\* the rejected and the caught-fault path as on the executed paths, carries a
\* timestamp and a metadata bag with the exit code, the stderr text and the
\* ValidationResult of the invocation.
C16_MetadataOnEveryPath ==
    (entry = "process_command" /\ pc = "Done") =>
        /\ Len(results) = 1
        /\ results[1].timestamp = clock
        /\ {"return_code", "error_output", "validation"} \subseteq DOMAIN results[1].metadata
        /\ ~validation_result.raised =>
               results[1].metadata.validation = validation_result.value

\* C17 (as stated): on every path the explanation of the returned result has
\* both a summary and a boolean error flag.
C17_SummaryAndErrorFlag ==
    (entry = "process_command" /\ pc = "Done") =>
        /\ Len(results) = 1
        /\ {"summary", "error"} \subseteq DOMAIN results[1].explanation
        /\ results[1].explanation.summary # <<>>
        /\ results[1].explanation.error \in BOOLEAN

\* C18: the exit-code classification answers for every exit code, and maps
\* 0 to SUCCESS, 127 to NOT_FOUND, 126 to PERMISSION_DENIED and every other
\* code, the negative ones included, to ERROR, whatever the stderr text and
\* the platform.
C18_Classification ==
    pc = "classified" =>
        /\ execution_result.status \in {SUCCESS, NOT_FOUND, PERMISSION_DENIED, ERROR}
        /\ execution_result.status = SUCCESS <=> child.returncode = 0
        /\ execution_result.status = NOT_FOUND <=> child.returncode = 127
        /\ execution_result.status = PERMISSION_DENIED <=> child.returncode = 126
        /\ execution_result.status = ERROR <=> child.returncode \notin {0, 126, 127}

\* C18 witness: a negative exit code with "not found" on stderr, on a platform
\* other than Linux, has been classified ERROR
C18_NegativeCodeClassified ==
    /\ pc = "classified"
    /\ child.returncode < 0
    /\ child.stderr = <<"n","o","t"," ","f","o","u","n","d">>
    /\ system = "windows"
    /\ execution_result.status = ERROR

\* C19: every CommandResult execute returns, on the normal path and on each
\* exceptional path, has status SUCCESS if and only if its return_code is 0,
\* and a result with status TIMEOUT has the configured timeout as execution_time
\* and return_code -1.
C19_StatusMatchesReturnCode ==
    (entry = "execute" /\ pc \in {"Executed", "Done"}) =>
        /\ execution_result.status = SUCCESS <=> execution_result.return_code = 0
        /\ execution_result.status = TIMEOUT =>
               /\ execution_result.execution_time = timeout
               /\ execution_result.return_code = -1

\* C19 witness: execute returned TIMEOUT before any child was started
C19_TimeoutReturned ==
    /\ entry = "execute"
    /\ pc = "Done"
    /\ child.state = "none"
    /\ execution_result.status = TIMEOUT
    /\ execution_result.execution_time = timeout
    /\ execution_result.return_code = -1

\* C20: when the process cannot be started, execute returns a result and does
\* not raise: FileNotFoundError gives NOT_FOUND with a message naming the
\* leading token of the command, PermissionError gives PERMISSION_DENIED, any
\* other fault of the spawn (an empty argument vector included) gives ERROR
\* with the fault's message; in each case return_code is -1, the output is
\* empty and execution_time is 0, and no child exists.
C20_SpawnFaultResult ==
    [][\A exc \in SpawnErrors \cup {"TypeError"} :
          SpawnFail(exc) =>
              /\ pc' = "Executed"
              /\ propagated' = "none"
              /\ child' = NoChild
              /\ execution_result'.command = command
              /\ execution_result'.return_code = -1
              /\ execution_result'.output = <<>>
              /\ execution_result'.execution_time = 0
              /\ exc = "FileNotFoundError" =>
                     /\ execution_result'.status = NOT_FOUND
                     /\ execution_result'.error
                            = <<Part("Command not found: ", Split(command.text)[1], 0)>>
              /\ exc = "PermissionError" =>
                     /\ execution_result'.status = PERMISSION_DENIED
                     /\ execution_result'.error = <<Part("Permission denied: ", command.text, 0)>>
              /\ exc \notin {"FileNotFoundError", "PermissionError"} =>
                     /\ execution_result'.status = ERROR
                     /\ execution_result'.error
                            = <<Part("Unexpected error: ", <<>>, 0), Part(exc, <<>>, 0)>>
              /\ request.argv = <<>> => execution_result'.status = ERROR
      ]_vars

\* C20 witness: execute returned NOT_FOUND for a command with white space around
\* the program the operating system did not find, and the message names the
\* program alone
C20_NotFoundReturned ==
    /\ entry = "execute"
    /\ pc = "Done"
    /\ child = NoChild
    /\ os_spawns # <<>>
    /\ command.text # Split(command.text)[1]
    /\ execution_result.status = NOT_FOUND
    /\ execution_result.return_code = -1
    /\ execution_result.error = <<Part("Command not found: ", Split(command.text)[1], 0)>>

\* the validator accepted the command of process_command and execute returned
AcceptedAndExecuted ==
    /\ entry = "process_command"
    /\ pc \in {"ExplainingSuccess", "SynthesizingErrorExplanation", "Done"}
    /\ ~validation_result.raised
    /\ validation_result.value.valid

\* C21: for an accepted command process_command asks the collaborator if and
\* only if the executor's status is SUCCESS; for every other status no prompt
\* is sent, the result has the executor's status, and its explanation is the
\* local one: error = true, error_type the status, return_code and
\* error_output the executor's exit code and stderr text.
C21_CollaboratorOnlyOnSuccess ==
    AcceptedAndExecuted =>
        /\ llm_calls # <<>> <=> execution_result.status = SUCCESS
        /\ pc = "ExplainingSuccess" <=> (execution_result.status = SUCCESS /\ results = <<>>)
        /\ (pc = "Done" /\ execution_result.status # SUCCESS) =>
               /\ execution_result.status \in {ERROR, NOT_FOUND, TIMEOUT, PERMISSION_DENIED}
               /\ Len(results) = 1
               /\ results[1].status = execution_result.status
               /\ results[1].explanation.error = TRUE
               /\ results[1].explanation.error_type = execution_result.status
               /\ results[1].explanation.return_code = execution_result.return_code
               /\ results[1].explanation.error_output = execution_result.error
               /\ results[1].explanation.summary # <<>>

\* C21 witness: a command whose program exited with code 1 after printing has
\* its local explanation, and the collaborator was not asked
C21_FailedWithOutputExplainedLocally ==
    /\ AcceptedAndExecuted
    /\ pc = "Done"
    /\ execution_result.status = ERROR
    /\ execution_result.output # <<>>
    /\ llm_calls = <<>>
    /\ results[1].explanation.error_type = ERROR
    /\ results[1].explanation.return_code = 1

\* C22: when the executor succeeded and the collaborator raises, or returns
\* text that is no JSON object, process_command still returns status SUCCESS
\* with the decoded stdout as original_output: text that does not parse gives
\* the summary "Unable to parse LLM response", the raw text and a parse_error;
\* a raised fault gives a summary starting "Error getting explanation" and
\* error = true.
C22_DegradedExplanation ==
    [][\A outcome \in LlmOutcomes :
          (/\ Explain(outcome)
           /\ outcome.kind = "raises" \/ outcome.text \in {"prose", "json_array"})
          => /\ execution_result.status = SUCCESS
             /\ pc' = "Done"
             /\ propagated' = "none"
             /\ Len(results') = 1
             /\ results'[1].status = SUCCESS
             /\ results'[1].original_output = Decode(child.stdout)
             /\ (outcome.kind = "returns" /\ outcome.text = "prose") =>
                    /\ results'[1].explanation.summary
                           = <<Part("Unable to parse LLM response", <<>>, 0)>>
                    /\ results'[1].explanation.raw_response = outcome.text
                    /\ "parse_error" \in DOMAIN results'[1].explanation
             /\ (outcome.kind = "raises" \/ outcome.text = "json_array") =>
                    /\ results'[1].explanation.summary[1]
                           = Part("Error getting explanation: ", <<>>, 0)
                    /\ results'[1].explanation.error = TRUE
      ]_vars

\* C22 witness: the program printed, the collaborator's reply did not parse,
\* and the result is SUCCESS with the output and a parse_error
C22_UnparseableReplyReturned ==
    /\ entry = "process_command"
    /\ pc = "Done"
    /\ Len(results) = 1
    /\ results[1].status = SUCCESS
    /\ results[1].original_output # <<>>
    /\ "parse_error" \in DOMAIN results[1].explanation
    /\ results[1].explanation.raw_response = "prose"

\* C23 (as stated): execute interprets a pipe: for a command A | B both A and
\* B are started, B fed with what A prints, and neither the pipe nor B is
\* handed to A as a literal argument.
C23_PipeInterpreted ==
    (/\ entry = "execute"
     /\ pc = "Done"
     /\ ContainsSeq(command.text, <<" ", "|", " ">>)
     /\ ShlexSplit(command.text).ok
     /\ Len(ShellPrograms(command.text)) = 2
     /\ execution_result.status = SUCCESS)
    => /\ os_programs = ShellPrograms(command.text)
       /\ \A i \in DOMAIN os_spawns :
              \A j \in DOMAIN os_spawns[i].argv : os_spawns[i].argv[j] # <<"|">>

\* the substitution table the claim speaks of, for each platform
C27_Table ==
    CASE system = "darwin" -> alternatives_darwin
      [] system = "linux" -> alternatives_linux
      [] system = "windows" -> alternatives_windows
      [] OTHER -> {}

\* C27: the explanation of a failed execution has a suggestion if and only if
\* the table of the platform has an entry for the lowercased leading token of
\* the command, the suggestion is that entry, and help_text is there exactly
\* when the suggestion is; on a platform without a table there is none.
C27_SuggestionFromTable ==
    (AcceptedAndExecuted /\ pc = "Done" /\ execution_result.status # SUCCESS) =>
        LET key == Lower(Split(command.text)[1])
            expl == results[1].explanation
        IN  /\ "suggestion" \in DOMAIN expl <=> \E e \in C27_Table : e[1] = key
            /\ "suggestion" \in DOMAIN expl => <<key, expl.suggestion>> \in C27_Table
            /\ "help_text" \in DOMAIN expl <=> "suggestion" \in DOMAIN expl
            /\ system \notin {"darwin", "linux", "windows"} => "suggestion" \notin DOMAIN expl

\* C27 witness: on Windows the failed command IP, typed in capitals, has the
\* suggestion ipconfig and a help text
C27_CapitalsSuggested ==
    /\ AcceptedAndExecuted
    /\ pc = "Done"
    /\ system = "windows"
    /\ Split(command.text)[1] = <<"I","P">>
    /\ execution_result.status = NOT_FOUND
    /\ results[1].explanation.suggestion = <<"i","p","c","o","n","f","i","g">>
    /\ "help_text" \in DOMAIN results[1].explanation

C26_FailsClosed ==
    pc = "probed" =>
        /\ propagated = "none"
        /\ returned \in BOOLEAN
        /\ returned = TRUE <=> (child.state = "exited" /\ child.returncode = 0)

\* C25 (as stated): two invocations that run concurrently on one client are
\* independent: a call that started while another call's session was open
\* gets the reply it would get alone, and never the fallback response because
\* the other call closed the session.
C25_ConcurrentCallsIndependent ==
    \A t \in DOMAIN tasks :
        (tasks[t].saw = "open" /\ tasks[t].pc = "done") =>
            /\ tasks[t].cause # "session_closed"
            /\ tasks[t].reply = "fallback" => tasks[t].cause = "api_error"

\* C29 (as stated): the client never holds a session that has been closed, so
\* every call after the first issues its request on an open session and
\* behaves like the first.
C29_NoClosedSessionHeld ==
    /\ llm_client.session # "closed"
    /\ \A t \in DOMAIN tasks :
           (tasks[t].pc = "done" /\ ~tasks[t].owner) => tasks[t].cause # "session_closed"

\* C30 (as stated): active_connections holds exactly the websockets whose
\* handler is still running: a connection appended on accept is removed when
\* its handler ends, whatever ends it.
C30_ActiveAreRunning ==
    { active_connections[i] : i \in DOMAIN active_connections }
        = { w \in DOMAIN handlers : handlers[w].pc # "ended" }

====
